---- MODULE Spec2Model ----
(***************************************************************************)
(* The prompt templates of src/prompts.py.                                 *)
(*                                                                         *)
(* register_prompts(mcp) defines seven closures and hands each to the      *)
(* host's mcp.prompt decorator.  A host then renders a template by calling *)
(* the closure with keyword arguments; a parameter the caller leaves out   *)
(* is bound to the default stored with the closure when its def statement  *)
(* ran.                                                                    *)
(*                                                                         *)
(* Text is kept as the sequence of its pieces: every literal line of an    *)
(* f-string is one piece (with its newline), every interpolated value is   *)
(* one piece.  Flatten gives the string the caller receives.               *)
(***************************************************************************)
EXTENDS Integers, Sequences, FiniteSets, TLC

VARIABLES
    registry,   \* what mcp.prompt has been handed, in definition order
    defaults,   \* the default values stored with each closure
    earlier,    \* some call made before the latest one, kept for comparison
    latest      \* the most recent render call: its name, arguments and output

vars == <<registry, defaults, earlier, latest>>

-----------------------------------------------------------------------------
(* Python values *)

\* Optional[...] = None
None == <<>>

\* an Optional[...] parameter holding the value v
Some(v) == <<v>>

\* a keyword argument the caller leaves out, and one the caller passes
Omitted == <<>>

Given(v) == <<v>>

\* parameter binding: the passed value, else the closure's stored default
Bind(arg, default) == IF arg = Omitted THEN default ELSE arg[1]

\* truth value of an Optional[List[str]] or Optional[str]: None, [] and ""
\* are false
Truthy(opt, empty) == opt # None /\ opt[1] # empty

\* sep.join(strs)
RECURSIVE join(_, _)
join(sep, strs) ==
    IF strs = <<>> THEN ""
    ELSE IF Len(strs) = 1 THEN strs[1]
    ELSE strs[1] \o sep \o join(sep, Tail(strs))

Digit(d) ==
    CASE d = 0 -> "0" [] d = 1 -> "1" [] d = 2 -> "2" [] d = 3 -> "3"
      [] d = 4 -> "4" [] d = 5 -> "5" [] d = 6 -> "6" [] d = 7 -> "7"
      [] d = 8 -> "8" [] d = 9 -> "9"

RECURSIVE NatToStr(_)
NatToStr(n) ==
    IF n < 10 THEN Digit(n) ELSE NatToStr(n \div 10) \o Digit(n % 10)

\* an int interpolated into an f-string: its decimal digits, "-" when negative
IntToStr(i) == IF i < 0 THEN "-" \o NatToStr(0 - i) ELSE NatToStr(i)

\* a List[str] interpolated into an f-string: the list's repr, each element
\* in single quotes (the elements drawn here hold no quote or backslash)
ListRepr(strs) ==
    "[" \o join(", ", [i \in 1..Len(strs) |-> "'" \o strs[i] \o "'"]) \o "]"

\* the string a sequence of pieces stands for
RECURSIVE Flatten(_)
Flatten(pieces) ==
    IF pieces = <<>> THEN "" ELSE pieces[1] \o Flatten(Tail(pieces))

\* fastmcp's Message: the role is "user" unless one is passed
DefaultRole == "user"

Message(content, role) ==
    [role |-> IF role = None THEN DefaultRole ELSE role[1], content |-> content]

-----------------------------------------------------------------------------
(* The literal text of the templates, line by line *)

\* prompts.py lines 18-19
get_started_message1 ==
    << "Welcome to Reddit MCP! I'll help you conduct thorough Reddit research. Here's the recommen" \o
        "ded workflow for comprehensive analysis:" >>

\* prompts.py lines 23-25
get_started_message2 ==
    << "First, let me discover relevant communities for your topic using discover_reddit_resources" \o
        " with discovery_depth='comprehensive'. This will find 8-15 relevant subreddits using multi" \o
        "ple search strategies." >>

\* prompts.py lines 28-29
get_started_message3 ==
    << "Next, I'll use fetch_multiple to efficiently get posts from the top communities. This is 7" \o
        "0% more efficient than individual calls and ensures diverse perspectives." >>

\* prompts.py lines 32-33
get_started_message4 ==
    << "Then, I'll search broadly using search_all for additional coverage beyond the discovered c" \o
        "ommunities." >>

\* prompts.py lines 36-37
get_started_message5 ==
    << "CRITICAL: I'll fetch detailed comments for AT LEAST 10 posts using fetch_comments with com" \o
        "ment_limit of 50-100 for comprehensive discussion analysis." >>

\* prompts.py lines 40-41
get_started_message6 ==
    << "Finally, I'll compile findings with proper Reddit URL citations for every post and comment" \o
        " referenced. What topic would you like to research?" >>

\* prompts.py lines 58-58
research_topic_text1 ==
    << "I'll conduct a " >>

\* prompts.py lines 58-58
research_topic_text2 ==
    << " Reddit research analysis on '" >>

\* prompts.py lines 58-58
research_topic_text3 ==
    << "' covering the past " >>

\* prompts.py lines 58-58
research_topic_text4 ==
    << ", " >>

\* prompts.py lines 58-63
research_topic_text5 ==
    << ".\n",
       "\n",
       "## Research Plan:\n",
       "\n",
       "### Phase 1: Community Discovery\n",
       "- Use discover_reddit_resources('" >>

\* prompts.py lines 63-63
research_topic_text6 ==
    << "', discovery_depth='" >>

\* prompts.py lines 63-72
research_topic_text7 ==
    << "') to find 8-15 relevant subreddits\n",
       "- Document confidence scores and community sizes for prioritization\n",
       "\n",
       "### Phase 2: Multi-Community Data Collection  \n",
       "- Fetch posts from top 8 communities using fetch_multiple_subreddits_tool\n",
       "- Parameters: listing_type='hot' for current discussions, limit_per_subreddit=8\n",
       "- Expected coverage: ~64 posts from diverse perspectives\n",
       "\n",
       "### Phase 3: Broad Search Expansion\n",
       "- Execute search_all_reddit('" >>

\* prompts.py lines 72-72
research_topic_text8 ==
    << "', time_filter='" >>

\* prompts.py lines 72-86
research_topic_text9 ==
    << "', limit=25)\n",
       "- Capture posts that might not appear in discovered communities\n",
       "\n",
       "### Phase 4: Deep Comment Analysis (CRITICAL)\n",
       "- Fetch full comment trees for top 15 posts using fetch_comments\n",
       "- Use comment_limit=75 for comprehensive discussion coverage\n",
       "- Focus on posts with high engagement (50+ comments)\n",
       "\n",
       "### Phase 5: Synthesis & Citation\n",
       "- Compile findings with themes, sentiment patterns, and key insights\n",
       "- Include Reddit URLs for EVERY cited post and comment\n",
       "- Structure: Executive summary → Community analysis → Key themes → Notable discussions\n",
       "\n",
       "This approach ensures ~100+ posts and ~1000+ comments analyzed across diverse communities." \o
        "\n",
       "Shall I proceed with this research plan?" >>

\* prompts.py lines 101-101
analyze_sentiment_text1 ==
    << "Please analyze the sentiment and emotional tone in Reddit discussions about " >>

\* prompts.py lines 101-130
analyze_sentiment_text2 ==
    << ".\n",
       "\n",
       "## Analysis Framework:\n",
       "\n",
       "1. **Overall Sentiment Distribution**\n",
       "   - Positive, negative, neutral percentages\n",
       "   - Emotional intensity levels\n",
       "   - Sentiment trends over time\n",
       "\n",
       "2. **Key Themes by Sentiment**\n",
       "   - What drives positive sentiment?\n",
       "   - Common complaints and frustrations\n",
       "   - Neutral/informational discussions\n",
       "\n",
       "3. **Community-Specific Patterns**\n",
       "   - How sentiment varies across different subreddits\n",
       "   - Differences between casual vs expert communities\n",
       "   - Impact of community rules on discussion tone\n",
       "\n",
       "4. **Notable Emotional Indicators**\n",
       "   - Frequently used emotional language\n",
       "   - Sarcasm and humor patterns\n",
       "   - Support vs criticism ratios\n",
       "\n",
       "5. **Engagement Correlation**\n",
       "   - How sentiment affects upvotes/downvotes\n",
       "   - Relationship between sentiment and comment depth\n",
       "   - Controversial (mixed sentiment) topics\n",
       "\n",
       "Please fetch at least 50 posts and analyze top comments (fetch_comments with limit=50) for" \o
        " accurate sentiment assessment. Include specific examples with Reddit URLs." >>

\* prompts.py lines 150-150
compare_communities_text1 ==
    << "Please conduct a comprehensive comparison analysis of these Reddit communities: " >>

\* prompts.py lines 150-155
compare_communities_text2 ==
    << "\n",
       "\n",
       "## Comparison Framework:\n",
       "\n",
       "### Data Collection Phase:\n",
       "1. Use fetch_multiple_subreddits_tool(subreddit_names=" >>

\* prompts.py lines 155-160
compare_communities_text3 ==
    << ", limit_per_subreddit=15)\n",
       "2. Fetch subreddit metadata using reddit://subreddit/{name}/about for each\n",
       "3. Analyze top 5 posts from each with fetch_comments(comment_limit=30)\n",
       "\n",
       "### Comparison Dimensions:\n" >>

\* prompts.py lines 160-189
compare_communities_text4 ==
    << "\n",
       "\n",
       "### Analysis Structure:\n",
       "\n",
       "1. **Community Profiles**\n",
       "   - Size and activity metrics\n",
       "   - Stated purpose and rules\n",
       "   - Typical post types\n",
       "\n",
       "2. **Content Analysis**\n",
       "   - Common topics and themes\n",
       "   - Content quality and depth\n",
       "   - Original content vs shares/links\n",
       "\n",
       "3. **Engagement Patterns**\n",
       "   - Average upvotes/comments\n",
       "   - Response time and activity peaks\n",
       "   - User retention indicators\n",
       "\n",
       "4. **Cultural Differences**\n",
       "   - Tone and communication style\n",
       "   - Newcomer friendliness\n",
       "   - Inside jokes and community norms\n",
       "\n",
       "5. **Unique Value Propositions**\n",
       "   - What each community offers uniquely\n",
       "   - Overlaps and differentiators\n",
       "   - Recommended use cases for each\n",
       "\n",
       "Provide specific examples with Reddit URLs demonstrating each community's characteristics." >>

\* prompts.py lines 203-203
trending_analysis_text1 ==
    << "Please identify and analyze trending discussions on Reddit" >>

\* prompts.py lines 203-203
trending_analysis_text2 ==
    << " from the past " >>

\* prompts.py lines 203-209
trending_analysis_text3 ==
    << ".\n",
       "\n",
       "## Trending Analysis Protocol:\n",
       "\n",
       "### Phase 1: Trend Discovery\n",
       "1. Fetch hot posts from popular subreddits using fetch_multiple_subreddits_tool\n",
       "2. Search for rapidly rising topics: search_all_reddit(sort='hot', time_filter='" >>

\* prompts.py lines 209-210
trending_analysis_text4 ==
    << "')\n",
       "3. Focus on posts with " >>

\* prompts.py lines 210-238
trending_analysis_text5 ==
    << "+ upvotes/comments\n",
       "\n",
       "### Phase 2: Trend Categorization\n",
       "- Breaking news and current events\n",
       "- Viral content and memes\n",
       "- Emerging discussions and debates\n",
       "- Technology and product launches\n",
       "- Community-specific trends\n",
       "\n",
       "### Phase 3: Momentum Analysis\n",
       "For each trending topic:\n",
       "- Growth rate (upvotes/hour)\n",
       "- Cross-subreddit spread\n",
       "- Comment velocity and engagement depth\n",
       "- Sentiment trajectory\n",
       "\n",
       "### Phase 4: Deep Dive (Top 5 Trends)\n",
       "Use fetch_comments(comment_limit=100) on the top post for each trend to understand:\n",
       "- Why it's trending\n",
       "- Community reaction patterns\n",
       "- Key discussion points\n",
       "- Potential longevity\n",
       "\n",
       "### Phase 5: Predictive Insights\n",
       "- Topics likely to continue trending\n",
       "- Emerging topics to watch\n",
       "- Sentiment shifts to monitor\n",
       "\n",
       "Include Reddit URLs for all referenced posts and highlight the single most impactful trend" \o
        "." >>

\* prompts.py lines 251-251
deep_dive_text1 ==
    << "I'll conduct an exhaustive deep-dive analysis on '" >>

\* prompts.py lines 251-251
deep_dive_text2 ==
    << "' covering " >>

\* prompts.py lines 251-256
deep_dive_text3 ==
    << " of Reddit history.\n",
       "\n",
       "## Deep Dive Research Protocol:\n",
       "\n",
       "### Phase 1: Comprehensive Community Mapping\n",
       "1. discover_reddit_resources('" >>

\* prompts.py lines 256-261
deep_dive_text4 ==
    << "', discovery_depth='comprehensive') - find ALL relevant communities\n",
       "2. Batch discover with related terms to ensure no community is missed\n",
       "3. Document all communities, even tangentially related ones\n",
       "\n",
       "### Phase 2: Systematic Data Collection\n",
       "Target: Minimum " >>

\* prompts.py lines 261-261
deep_dive_text5 ==
    << " posts and " >>

\* prompts.py lines 261-272
deep_dive_text6 ==
    << " comments\n",
       "\n",
       "**Wave 1 - Primary Communities (Top 5)**\n",
       "- fetch_multiple_subreddits_tool with limit_per_subreddit=20\n",
       "- Cover hot, top, and new to get temporal diversity\n",
       "\n",
       "**Wave 2 - Secondary Communities (Next 10)**  \n",
       "- fetch_multiple_subreddits_tool with limit_per_subreddit=10\n",
       "- Focus on specialized/niche perspectives\n",
       "\n",
       "**Wave 3 - Historical Mining**\n",
       "- search_all_reddit('" >>

\* prompts.py lines 272-273
deep_dive_text7 ==
    << "', time_filter='year', limit=50)\n",
       "- search_all_reddit('" >>

\* prompts.py lines 273-274
deep_dive_text8 ==
    << "', time_filter='month', limit=25) for recent\n",
       "- search_all_reddit('" >>

\* prompts.py lines 274-279
deep_dive_text9 ==
    << "', sort='top', limit=25) for influential posts\n",
       "\n",
       "### Phase 3: Comment Deep Dive\n",
       "- Fetch comments for ALL posts with 100+ upvotes (fetch_comments, limit=100)\n",
       "- Fetch comments for posts with 50+ comments regardless of upvotes\n",
       "- Total target: " >>

\* prompts.py lines 279-298
deep_dive_text10 ==
    << "+ comments across all discussions\n",
       "\n",
       "### Phase 4: Multi-Dimensional Analysis\n",
       "1. **Temporal Evolution**: How has discussion changed over time?\n",
       "2. **Community Perspectives**: How do different communities view this topic?\n",
       "3. **Expertise Levels**: Beginner vs expert discussions\n",
       "4. **Controversy Mapping**: Divisive aspects and debate points\n",
       "5. **Solution Patterns**: Common advice and recommendations\n",
       "6. **Myth Busting**: Misconceptions vs factual consensus\n",
       "\n",
       "### Phase 5: Comprehensive Synthesis\n",
       "- Executive summary with key findings\n",
       "- Detailed thematic analysis with examples\n",
       "- Community-by-community breakdown\n",
       "- Timeline of major developments\n",
       "- FAQ compiled from common questions\n",
       "- Expert insights from highly upvoted technical comments\n",
       "- EVERY claim backed by Reddit URL citations\n",
       "\n",
       "This exhaustive approach ensures no significant perspective is missed. Proceed?" >>

\* prompts.py lines 312-312
citation_guide_message1_text1 ==
    << "Here's how to properly cite Reddit content using " >>

\* prompts.py lines 312-312
citation_guide_message1_text2 ==
    << " citations:" >>

\* prompts.py lines 316-322
citation_guide_message2 ==
    << "## Citation Requirements:\n",
       "\n",
       "1. **Every factual claim** must include the source Reddit URL\n",
       "2. **User attribution** format: u/username or [u/username]\n",
       "3. **Subreddit references** format: r/subreddit\n",
       "4. **Upvote counts** provide credibility context\n",
       "5. **Timestamps** for temporal context\n",
       "6. **Comment permalinks** for specific discussions" >>

\* prompts.py lines 328-340
citation_guide_message3 ==
    << "## Citation Examples:\n",
       "\n",
       "**For posts:**\n",
       "> According to a highly upvoted analysis [↑2,451] in r/science, the study shows... ([u/Res" \o
        "earcherName](https://reddit.com/r/science/comments/abc123/))\n",
       "\n",
       "**For comments:**\n",
       "> As [u/ExpertUser] explains in their detailed response [↑342]: \"Quote from comment...\" ([" \o
        "permalink](https://reddit.com/r/tech/comments/xyz789/comment/def456/))\n",
       "\n",
       "**For community consensus:**\n",
       "> The r/python community generally agrees (based on 15+ posts analyzed) that... [r/python " \o
        "search results](https://reddit.com/r/python/search?q=topic)\n",
       "\n",
       "**For controversial topics:**\n",
       "> This remains debated, with r/politics [↑1,234] arguing X ([link](https://reddit.com/...)" \o
        ") while r/economics [↑892] contends Y ([link](https://reddit.com/...))" >>

\* prompts.py lines 344-346
citation_guide_message4 ==
    << "Remember: Credibility comes from transparent sourcing. Always provide enough context for r" \o
        "eaders to evaluate the source's reliability. Include URLs for EVERY Reddit reference made." >>

-----------------------------------------------------------------------------
(* The seven templates *)

\* get_started without the fetch_multiple step
get_started_five ==
    << Message(get_started_message1, Some("assistant")),
       Message(get_started_message2, None),
       Message(get_started_message4, None),
       Message(get_started_message5, None),
       Message(get_started_message6, None) >>

get_started ==
    << Message(get_started_message1, Some("assistant")),
       Message(get_started_message2, None),
       Message(get_started_message3, None),
       Message(get_started_message4, None),
       Message(get_started_message5, None),
       Message(get_started_message6, None) >>

\* the two notes under the wrong branches
nsfw_note_swapped(include_nsfw) ==
    IF include_nsfw THEN "excluding NSFW content" ELSE "including NSFW communities"

nsfw_note(include_nsfw) ==
    IF include_nsfw THEN "including NSFW communities" ELSE "excluding NSFW content"

research_topic(topic, depth, time_range, include_nsfw) ==
    research_topic_text1 \o <<depth>> \o
    research_topic_text2 \o <<topic>> \o
    research_topic_text3 \o <<time_range>> \o
    research_topic_text4 \o <<nsfw_note(include_nsfw)>> \o
    research_topic_text5 \o <<topic>> \o
    research_topic_text6 \o <<depth>> \o
    research_topic_text7 \o <<topic>> \o
    research_topic_text8 \o <<time_range>> \o
    research_topic_text9

target(subreddit_or_topic, is_subreddit) ==
    IF is_subreddit THEN "r/" \o subreddit_or_topic
    ELSE "topic '" \o subreddit_or_topic \o "'"

aspects_text(aspects) ==
    IF Truthy(aspects, <<>>)
    THEN " focusing on aspects: " \o join(", ", aspects[1])
    ELSE ""

analyze_sentiment(subreddit_or_topic, is_subreddit, aspects) ==
    analyze_sentiment_text1 \o
    <<target(subreddit_or_topic, is_subreddit)>> \o
    <<aspects_text(aspects)>> \o
    analyze_sentiment_text2

\* a default list that lost "moderation style"
four_comparison_aspects ==
    << "content focus", "community culture", "expertise level", "engagement patterns" >>

default_comparison_aspects ==
    << "content focus", "community culture", "moderation style",
       "expertise level", "engagement patterns" >>

\* lines 141-145: the parameter after the `if not comparison_aspects` rebinding
resolved_comparison_aspects(comparison_aspects) ==
    IF ~Truthy(comparison_aspects, <<>>)
    THEN default_comparison_aspects
    ELSE comparison_aspects[1]

subreddit_list(subreddits) ==
    join(", ", [i \in 1..Len(subreddits) |-> "r/" \o subreddits[i]])

\* bullet lines joined with ", " instead of a newline
aspects_list_one_line(comparison_aspects) ==
    join(", ", [i \in 1..Len(comparison_aspects) |-> "   - " \o comparison_aspects[i]])

aspects_list(comparison_aspects) ==
    join("\n", [i \in 1..Len(comparison_aspects) |-> "   - " \o comparison_aspects[i]])

compare_communities(subreddits, comparison_aspects) ==
    compare_communities_text1 \o <<subreddit_list(subreddits)>> \o
    compare_communities_text2 \o <<ListRepr(subreddits)>> \o
    compare_communities_text3 \o
    <<aspects_list(resolved_comparison_aspects(comparison_aspects))>> \o
    compare_communities_text4

category_filter(category) ==
    IF Truthy(category, "") THEN " in " \o category[1] ELSE " across all topics"

trending_analysis(category, time_window, min_engagement) ==
    trending_analysis_text1 \o <<category_filter(category)>> \o
    trending_analysis_text2 \o <<time_window>> \o
    trending_analysis_text3 \o <<time_window>> \o
    trending_analysis_text4 \o <<IntToStr(min_engagement)>> \o
    trending_analysis_text5

\* a Phase 3 total taken from the post target
deep_dive_total_from_posts(topic, historical_range, min_posts_to_analyze, min_comments_to_analyze) ==
    deep_dive_text1 \o <<topic>> \o
    deep_dive_text2 \o <<historical_range>> \o
    deep_dive_text3 \o <<topic>> \o
    deep_dive_text4 \o <<IntToStr(min_posts_to_analyze)>> \o
    deep_dive_text5 \o <<IntToStr(min_comments_to_analyze)>> \o
    deep_dive_text6 \o <<topic>> \o
    deep_dive_text7 \o <<topic>> \o
    deep_dive_text8 \o <<topic>> \o
    deep_dive_text9 \o <<IntToStr(min_posts_to_analyze)>> \o
    deep_dive_text10

deep_dive(topic, historical_range, min_posts_to_analyze, min_comments_to_analyze) ==
    deep_dive_text1 \o <<topic>> \o
    deep_dive_text2 \o <<historical_range>> \o
    deep_dive_text3 \o <<topic>> \o
    deep_dive_text4 \o <<IntToStr(min_posts_to_analyze)>> \o
    deep_dive_text5 \o <<IntToStr(min_comments_to_analyze)>> \o
    deep_dive_text6 \o <<topic>> \o
    deep_dive_text7 \o <<topic>> \o
    deep_dive_text8 \o <<topic>> \o
    deep_dive_text9 \o <<IntToStr(min_comments_to_analyze)>> \o
    deep_dive_text10

\* a body that never appends the closing reminder
citation_guide_no_closing(include_examples, citation_style) ==
    LET messages ==
            << Message(citation_guide_message1_text1 \o <<citation_style>> \o
                       citation_guide_message1_text2, Some("assistant")),
               Message(citation_guide_message2, None) >>
    IN  IF include_examples
        THEN Append(messages, Message(citation_guide_message3, None))
        ELSE messages

\* a body that returns straight after appending the examples
citation_guide_early_return(include_examples, citation_style) ==
    LET messages ==
            << Message(citation_guide_message1_text1 \o <<citation_style>> \o
                       citation_guide_message1_text2, Some("assistant")),
               Message(citation_guide_message2, None) >>
    IN  IF include_examples
        THEN Append(messages, Message(citation_guide_message3, None))
        ELSE Append(messages, Message(citation_guide_message4, None))

citation_guide(include_examples, citation_style) ==
    LET messages ==
            << Message(citation_guide_message1_text1 \o <<citation_style>> \o
                       citation_guide_message1_text2, Some("assistant")),
               Message(citation_guide_message2, None) >>
        with_examples ==
            IF include_examples
            THEN Append(messages, Message(citation_guide_message3, None))
            ELSE messages
    IN  Append(with_examples, Message(citation_guide_message4, None))

-----------------------------------------------------------------------------
(* Registration *)

\* the decorator applications of register_prompts, in source order; the
\* template's name is the decorated function's name
registered_prompts ==
    << [name |-> "get_started",
        description |-> "Get started with Reddit MCP - learn how to conduct comprehensive research",
        tags |-> {"getting-started", "tutorial", "guide"},
        meta |-> None],
       [name |-> "research_topic",
        description |-> "Generate a comprehensive research plan for any topic on Reddit",
        tags |-> {"research", "planning", "analysis"},
        meta |-> None],
       [name |-> "analyze_sentiment",
        description |-> "Create a sentiment analysis request for Reddit discussions",
        tags |-> {"sentiment", "analysis", "emotions"},
        meta |-> None],
       [name |-> "compare_communities",
        description |-> "Generate a comparison analysis between multiple Reddit communities",
        tags |-> {"comparison", "communities", "analysis"},
        meta |-> None],
       [name |-> "trending_analysis",
        description |-> "Find and analyze trending topics across Reddit",
        tags |-> {"trending", "discovery", "current-events"},
        meta |-> None],
       [name |-> "deep_dive",
        description |-> "Create a deep dive research plan for exhaustive single-topic analysis",
        tags |-> {"deep-dive", "research", "comprehensive"},
        meta |-> None],
       [name |-> "citation_guide",
        description |-> "Generate proper citation format for Reddit content",
        tags |-> {"citation", "reference", "documentation"},
        meta |-> Some([version |-> "1.0", style |-> "academic"])] >>

\* the default values each def statement stores with its closure
function_defaults ==
    [research_topic |->
        [depth |-> "comprehensive", time_range |-> "year", include_nsfw |-> FALSE],
     analyze_sentiment |->
        [is_subreddit |-> FALSE, aspects |-> None],
     compare_communities |->
        [comparison_aspects |-> None],
     trending_analysis |->
        [category |-> None, time_window |-> "day", min_engagement |-> 100],
     deep_dive |->
        [historical_range |-> "year", min_posts_to_analyze |-> 100,
         min_comments_to_analyze |-> 1000],
     citation_guide |->
        [include_examples |-> TRUE, citation_style |-> "inline"]]

\* a body that stored the style it was last given as the new default
defaults_remember_style(defs, name, args) ==
    IF name = "citation_guide" /\ args.citation_style # Omitted
    THEN [defs EXCEPT !.citation_guide.citation_style = args.citation_style[1]]
    ELSE defs

\* the stored defaults after a call: no body assigns to a default, a
\* nonlocal or a global, so they are what they were
defaults_after_call(defs, name, args) == defs

\* a render that dropped the template it rendered from the registry
registry_drop_rendered(reg, name) ==
    SelectSeq(reg, LAMBDA t : t.name # name)

\* the registry after a call: no body touches mcp
registry_after_call(reg, name) == reg

-----------------------------------------------------------------------------
(* Inputs *)

MaxAspects == 2

AspectNames == {"tone", "cost"}

SeqsUpTo(S, n) == UNION {[1..k -> S] : k \in 0..n}

\* caller-supplied aspect lists: every list of at most MaxAspects names, and
\* the five default aspects passed explicitly
AspectLists ==
    SeqsUpTo(AspectNames, MaxAspects)
    \cup {<< "content focus", "community culture", "moderation style",
              "expertise level", "engagement patterns" >>}

AspectArgs == {Omitted} \cup {Given(Some(l)) : l \in AspectLists}

Opt(S) == {Omitted} \cup {Given(v) : v \in S}

SubredditLists == {<<"a", "b">>, <<"b", "a">>, <<"a">>}

PostTargets == {0, 50, 500}

CommentTargets == {50, 500}

NoCall == [name |-> "", args |-> <<>>, out |-> <<>>]

-----------------------------------------------------------------------------
(* The host *)

Init ==
    /\ registry = <<>>
    /\ defaults = <<>>
    /\ earlier = NoCall
    /\ latest = NoCall

\* register_prompts(mcp), called once at startup
register_prompts ==
    /\ registry = <<>>
    /\ registry' = registry \o registered_prompts
    /\ defaults' = function_defaults
    /\ UNCHANGED <<earlier, latest>>

IsRegistered(name) == \E i \in 1..Len(registry) : registry[i].name = name

\* the host returns out to the caller; the comparison slot keeps what it
\* held or takes the call that latest held
Return(name, args, out) ==
    /\ latest' = [name |-> name, args |-> args, out |-> out]
    /\ earlier' \in {earlier, latest}
    /\ defaults' = defaults_after_call(defaults, name, args)
    /\ registry' = registry_after_call(registry, name)

Call_get_started ==
    /\ IsRegistered("get_started")
    /\ Return("get_started", <<>>, get_started)

Call_research_topic ==
    /\ IsRegistered("research_topic")
    /\ \E topic \in {"AI safety"}, depth \in Opt({"quick"}),
          time_range \in Opt({"month"}), include_nsfw \in Opt(BOOLEAN) :
          LET d == defaults.research_topic
          IN  Return("research_topic",
                     [topic |-> topic, depth |-> depth, time_range |-> time_range,
                      include_nsfw |-> include_nsfw],
                     research_topic(topic, Bind(depth, d.depth),
                                    Bind(time_range, d.time_range),
                                    Bind(include_nsfw, d.include_nsfw)))

Call_analyze_sentiment ==
    /\ IsRegistered("analyze_sentiment")
    /\ \E subreddit_or_topic \in {"python"}, is_subreddit \in Opt({TRUE}),
          aspects \in AspectArgs :
          LET d == defaults.analyze_sentiment
          IN  Return("analyze_sentiment",
                     [subreddit_or_topic |-> subreddit_or_topic,
                      is_subreddit |-> is_subreddit, aspects |-> aspects],
                     analyze_sentiment(subreddit_or_topic,
                                       Bind(is_subreddit, d.is_subreddit),
                                       Bind(aspects, d.aspects)))

Call_compare_communities ==
    /\ IsRegistered("compare_communities")
    /\ \E subreddits \in SubredditLists, comparison_aspects \in AspectArgs :
          /\ subreddits = <<"a", "b">> \/ comparison_aspects = Omitted
          /\ LET d == defaults.compare_communities
             IN  Return("compare_communities",
                        [subreddits |-> subreddits,
                         comparison_aspects |-> comparison_aspects],
                        compare_communities(subreddits,
                                            Bind(comparison_aspects, d.comparison_aspects)))

Call_trending_analysis ==
    /\ IsRegistered("trending_analysis")
    /\ \E category \in Opt({Some(""), Some("gaming")}), time_window \in Opt({"week"}),
          min_engagement \in Opt({250}) :
          /\ time_window = Omitted \/ min_engagement # Omitted
          /\ LET d == defaults.trending_analysis
             IN  Return("trending_analysis",
                        [category |-> category, time_window |-> time_window,
                         min_engagement |-> min_engagement],
                        trending_analysis(Bind(category, d.category),
                                          Bind(time_window, d.time_window),
                                          Bind(min_engagement, d.min_engagement)))

Call_deep_dive ==
    /\ IsRegistered("deep_dive")
    /\ \E topic \in {"climate"}, historical_range \in Opt({"decade"}),
          min_posts_to_analyze \in Opt(PostTargets),
          min_comments_to_analyze \in Opt(CommentTargets) :
          LET d == defaults.deep_dive
          IN  Return("deep_dive",
                     [topic |-> topic, historical_range |-> historical_range,
                      min_posts_to_analyze |-> min_posts_to_analyze,
                      min_comments_to_analyze |-> min_comments_to_analyze],
                     deep_dive(topic, Bind(historical_range, d.historical_range),
                               Bind(min_posts_to_analyze, d.min_posts_to_analyze),
                               Bind(min_comments_to_analyze, d.min_comments_to_analyze)))

Call_citation_guide ==
    /\ IsRegistered("citation_guide")
    /\ \E include_examples \in Opt(BOOLEAN), citation_style \in Opt({"inline", "footnote"}) :
          LET d == defaults.citation_guide
          IN  Return("citation_guide",
                     [include_examples |-> include_examples,
                      citation_style |-> citation_style],
                     citation_guide(Bind(include_examples, d.include_examples),
                                    Bind(citation_style, d.citation_style)))

Next ==
    \/ register_prompts
    \/ Call_get_started
    \/ Call_research_topic
    \/ Call_analyze_sentiment
    \/ Call_compare_communities
    \/ Call_trending_analysis
    \/ Call_deep_dive
    \/ Call_citation_guide

Spec == Init /\ [][Next]_vars

-----------------------------------------------------------------------------
(* Properties *)

IsCall(c, name) == c.name = name

\* the pieces of a message hold the piece p
HasPiece(m, p) == \E k \in 1..Len(m.content) : m.content[k] = p

ExamplesHeading == "## Citation Examples:\n"

ExampleMessages(out) == {i \in 1..Len(out) : HasPiece(out[i], ExamplesHeading)}

\* seq without its k-th element
Without(seq, k) == SubSeq(seq, 1, k - 1) \o SubSeq(seq, k + 1, Len(seq))

FiveAspects ==
    << "content focus", "community culture", "moderation style",
       "expertise level", "engagement patterns" >>

FiveBullets ==
    "   - content focus\n   - community culture\n   - moderation style\n" \o
    "   - expertise level\n   - engagement patterns"

SentimentOpening ==
    "Please analyze the sentiment and emotional tone in Reddit discussions about "

ComparisonOpening ==
    "Please conduct a comprehensive comparison analysis of these Reddit communities: "

\* the piece of a compare_communities output under the dimensions heading
DimensionsBlock(out) ==
    {out[i + 1] : i \in {j \in 1..(Len(out) - 2) :
                            /\ out[j] = "### Comparison Dimensions:\n"
                            /\ out[j + 2] = "\n"}}

\* the aspects clause of an analyze_sentiment output: the piece between the
\* target and the full stop that ends the opening sentence
AspectsClause(out) ==
    {out[3] : i \in {j \in {1} : /\ Len(out) >= 4
                                 /\ out[1] = SentimentOpening
                                 /\ out[4] = ".\n"}}

\* C2 as stated: with the aspect list omitted, analyze_sentiment and
\* compare_communities each give the output of some fixed non-empty default
\* list passed explicitly.
C2_AsStated ==
    /\ (IsCall(latest, "analyze_sentiment") /\ latest.args.aspects = Omitted) =>
          \E D \in AspectLists \ {<<>>} :
              latest.out = analyze_sentiment(latest.args.subreddit_or_topic,
                                             Bind(latest.args.is_subreddit, FALSE),
                                             Some(D))
    /\ (IsCall(latest, "compare_communities")
            /\ latest.args.comparison_aspects = Omitted) =>
          \E D \in AspectLists \ {<<>>} :
              latest.out = compare_communities(latest.args.subreddits, Some(D))

\* C2 amended: with comparison_aspects omitted, compare_communities renders
\* the fixed five-item default list, and its output is the output for that
\* list passed explicitly; with aspects omitted, analyze_sentiment has no
\* default list: the aspects clause is empty, and its output is the output
\* for the empty list passed explicitly.
C2_OmittedAspects ==
    /\ (IsCall(latest, "compare_communities")
            /\ latest.args.comparison_aspects = Omitted) =>
          /\ DimensionsBlock(latest.out) = {FiveBullets}
          /\ (/\ IsCall(earlier, "compare_communities")
              /\ earlier.args.subreddits = latest.args.subreddits
              /\ earlier.args.comparison_aspects = Given(Some(FiveAspects)))
                 => earlier.out = latest.out
    /\ (IsCall(latest, "analyze_sentiment") /\ latest.args.aspects = Omitted) =>
          /\ AspectsClause(latest.out) = {""}
          /\ (/\ IsCall(earlier, "analyze_sentiment")
              /\ earlier.args.subreddit_or_topic = latest.args.subreddit_or_topic
              /\ earlier.args.is_subreddit = latest.args.is_subreddit
              /\ earlier.args.aspects = Given(Some(<<>>)))
                 => earlier.out = latest.out

C2_Witness ==
    /\ IsCall(latest, "compare_communities")
    /\ latest.args.comparison_aspects = Omitted
    /\ IsCall(earlier, "compare_communities")
    /\ earlier.args.subreddits = latest.args.subreddits
    /\ earlier.args.comparison_aspects = Given(Some(FiveAspects))
    /\ DimensionsBlock(latest.out) = {FiveBullets}

\* the supplied aspects as bullet lines, built from the last line back
RECURSIVE BulletLines(_)
BulletLines(l) ==
    IF l = <<>> THEN ""
    ELSE IF Len(l) = 1 THEN "   - " \o l[1]
    ELSE BulletLines(SubSeq(l, 1, Len(l) - 1)) \o "\n   - " \o l[Len(l)]

RECURSIVE CommaList(_)
CommaList(l) ==
    IF l = <<>> THEN ""
    ELSE IF Len(l) = 1 THEN l[1]
    ELSE CommaList(SubSeq(l, 1, Len(l) - 1)) \o ", " \o l[Len(l)]

\* C3: for every caller-supplied aspect sequence, the empty one and ones
\* with repeats included, analyze_sentiment and compare_communities render
\* exactly the supplied elements in the supplied order and never put the
\* default list in the place of a sequence the caller provided.
C3_SuppliedAspects ==
    /\ (IsCall(latest, "compare_communities")
            /\ latest.args.comparison_aspects # Omitted) =>
          DimensionsBlock(latest.out) =
              {BulletLines(latest.args.comparison_aspects[1][1])}
    /\ (IsCall(latest, "analyze_sentiment") /\ latest.args.aspects # Omitted) =>
          LET l == latest.args.aspects[1][1]
          IN  AspectsClause(latest.out) =
                  {IF l = <<>> THEN ""
                   ELSE " focusing on aspects: " \o CommaList(l)}

C3_Witness ==
    /\ IsCall(latest, "compare_communities")
    /\ latest.args.comparison_aspects = Given(Some(<<"cost", "cost">>))
    /\ DimensionsBlock(latest.out) = {"   - cost\n   - cost"}

\* the defaults of the parameter table
DocumentedDefaults ==
    [research_topic |->
        [depth |-> "comprehensive", time_range |-> "year", include_nsfw |-> FALSE],
     analyze_sentiment |-> [is_subreddit |-> FALSE, aspects |-> None],
     compare_communities |-> [comparison_aspects |-> None],
     trending_analysis |->
        [category |-> None, time_window |-> "day", min_engagement |-> 100],
     deep_dive |->
        [historical_range |-> "year", min_posts_to_analyze |-> 100,
         min_comments_to_analyze |-> 1000],
     citation_guide |-> [include_examples |-> TRUE, citation_style |-> "inline"]]

SameCall(c, d) == c.name # "" /\ c.name = d.name /\ c.args = d.args

\* the templates that return one string
TextTemplates ==
    {"research_topic", "analyze_sentiment", "compare_communities",
     "trending_analysis", "deep_dive"}

C5_ExamplesAllOrNothing ==
    (/\ IsCall(earlier, "citation_guide")
     /\ IsCall(latest, "citation_guide")
     /\ earlier.args.citation_style = latest.args.citation_style
     /\ earlier.args.include_examples = Given(FALSE)
     /\ latest.args.include_examples = Given(TRUE))
        => /\ Len(latest.out) = Len(earlier.out) + 1
           /\ \E k \in 1..Len(latest.out) :
                 /\ Without(latest.out, k) = earlier.out
                 /\ ExampleMessages(latest.out) = {k}

C5_Witness ==
    /\ IsCall(earlier, "citation_guide")
    /\ IsCall(latest, "citation_guide")
    /\ earlier.args.citation_style = Given("footnote")
    /\ latest.args.citation_style = Given("footnote")
    /\ earlier.args.include_examples = Given(FALSE)
    /\ latest.args.include_examples = Given(TRUE)
    /\ Without(latest.out, 3) = earlier.out

SevenNames ==
    {"get_started", "research_topic", "analyze_sentiment", "compare_communities",
     "trending_analysis", "deep_dive", "citation_guide"}

\* C6: once register_prompts has run, the registry holds exactly seven
\* templates with pairwise distinct names, the seven named ones, and no
\* render call adds, removes or changes a registered template.
C6_RegistryFixed ==
    /\ [](registry # <<>> =>
            /\ Len(registry) = 7
            /\ {registry[i].name : i \in 1..Len(registry)} = SevenNames)
    /\ [][registry # <<>> => registry' = registry]_vars

C6_Witness ==
    /\ Len(registry) = 7
    /\ IsCall(earlier, "citation_guide")
    /\ IsCall(latest, "deep_dive")

\* C7: get_started returns exactly 6 messages in a fixed order; the first has
\* the assistant role and each of the other five the default role.
C7_GetStarted ==
    IsCall(latest, "get_started") =>
        /\ Len(latest.out) = 6
        /\ [i \in 1..6 |-> latest.out[i].content] =
              << get_started_message1, get_started_message2, get_started_message3,
                 get_started_message4, get_started_message5, get_started_message6 >>
        /\ latest.out[1].role = "assistant"
        /\ \A i \in 2..6 : latest.out[i].role = "user"
        /\ IsCall(earlier, "get_started") => earlier.out = latest.out

C7_Witness ==
    /\ IsCall(latest, "get_started")
    /\ IsCall(earlier, "get_started")
    /\ Len(latest.out) = 6

Differing(a, b) == {i \in 1..Len(a) : a[i] # b[i]}

\* C8: for fixed topic, depth and time_range, the research_topic outputs for
\* include_nsfw true and false differ in exactly one clause, 'including NSFW
\* communities' against 'excluding NSFW content'; with include_nsfw omitted
\* the output is the one for false.
C8_NsfwClause ==
    (/\ IsCall(earlier, "research_topic")
     /\ IsCall(latest, "research_topic")
     /\ earlier.args.topic = latest.args.topic
     /\ earlier.args.depth = latest.args.depth
     /\ earlier.args.time_range = latest.args.time_range)
        => /\ (/\ earlier.args.include_nsfw = Given(TRUE)
               /\ latest.args.include_nsfw = Given(FALSE))
                 => /\ Len(earlier.out) = Len(latest.out)
                    /\ \E i \in 1..Len(latest.out) :
                          /\ Differing(earlier.out, latest.out) = {i}
                          /\ earlier.out[i] = "including NSFW communities"
                          /\ latest.out[i] = "excluding NSFW content"
           /\ (/\ earlier.args.include_nsfw = Omitted
               /\ latest.args.include_nsfw = Given(FALSE))
                 => earlier.out = latest.out

C8_Witness ==
    /\ IsCall(earlier, "research_topic")
    /\ IsCall(latest, "research_topic")
    /\ earlier.args.depth = Given("quick")
    /\ latest.args.depth = Given("quick")
    /\ earlier.args.time_range = latest.args.time_range
    /\ earlier.args.include_nsfw = Given(TRUE)
    /\ latest.args.include_nsfw = Given(FALSE)
    /\ Cardinality(Differing(earlier.out, latest.out)) = 1

\* C9: compare_communities with no comparison_aspects renders the five
\* default aspects as five bullet lines in their order, and lists the
\* compared set as each supplied name prefixed with 'r/', joined by ', ', in
\* the supplied order.
C9_DefaultComparison ==
    (IsCall(latest, "compare_communities")
        /\ latest.args.comparison_aspects = Omitted)
        => /\ DimensionsBlock(latest.out) = {FiveBullets}
           /\ latest.out[1] = ComparisonOpening
           /\ latest.out[2] =
                 CommaList([i \in 1..Len(latest.args.subreddits) |->
                               "r/" \o latest.args.subreddits[i]])
           /\ latest.out[3] = "\n"
           /\ latest.args.subreddits = <<"a", "b">> => latest.out[2] = "r/a, r/b"

C9_Witness ==
    /\ IsCall(latest, "compare_communities")
    /\ latest.args.comparison_aspects = Omitted
    /\ latest.args.subreddits = <<"a", "b">>
    /\ latest.out[2] = "r/a, r/b"

Decimal ==
    0 :> "0" @@ 50 :> "50" @@ 100 :> "100" @@ 500 :> "500" @@ 1000 :> "1000"

PiecesAt(out, p) == {i \in 1..Len(out) : out[i] = p}

\* C10: the Phase 2 target line of deep_dive states P posts and C comments
\* and the Phase 3 total-target line states C comments, P and C being the
\* caller's min_posts_to_analyze and min_comments_to_analyze; no other target
\* line exists.
C10_Targets ==
    IsCall(latest, "deep_dive") =>
        LET out == latest.out
            P == Decimal[Bind(latest.args.min_posts_to_analyze, 100)]
            C == Decimal[Bind(latest.args.min_comments_to_analyze, 1000)]
        IN  \E i, j \in 4..(Len(out) - 4) :
               /\ PiecesAt(out, "Target: Minimum ") = {i}
               /\ out[i - 1] = "### Phase 2: Systematic Data Collection\n"
               /\ out[i + 1] = P
               /\ out[i + 2] = " posts and "
               /\ out[i + 3] = C
               /\ out[i + 4] = " comments\n"
               /\ PiecesAt(out, "- Total target: ") = {j}
               /\ out[j - 3] = "### Phase 3: Comment Deep Dive\n"
               /\ out[j + 1] = C
               /\ out[j + 2] = "+ comments across all discussions\n"
               /\ PiecesAt(out, P) \cup PiecesAt(out, C) = {i + 1, i + 3, j + 1}

C10_Witness ==
    /\ IsCall(latest, "deep_dive")
    /\ latest.args.topic = "climate"
    /\ latest.args.min_posts_to_analyze = Given(50)
    /\ latest.args.min_comments_to_analyze = Given(500)
    /\ PiecesAt(latest.out, "50") # {}
    /\ Cardinality(PiecesAt(latest.out, "500")) = 2

====
